---- MODULE Spec2Model ----
(***************************************************************************)
(* GeoSpatial-Backend: the POST /api/nearby-places handler in its three    *)
(* server variants (retrying Nominatim relay, plain Nominatim relay,       *)
(* Overpass relay with a 15 s timeout) and the distance calculator they    *)
(* share (utils/distanceCalculator.js).                                    *)
(*                                                                         *)
(* JavaScript Numbers are modelled as fixed-point integers: kilometres and *)
(* minutes in units of 1/Unit, radians and trigonometric values in units   *)
(* of 1/Fine, degrees as whole numbers.  NaN is a value of its own that    *)
(* every arithmetic operation propagates and every comparison rejects.     *)
(***************************************************************************)
EXTENDS Integers, Sequences, FiniteSets, TLC

VARIABLES
    variant,      \* which server file is deployed: "retry", "nominatim", "overpass"
    pc,           \* per request: where its handler (an async function) stands
    body,         \* per request: req.body = [lat, lng, type]
    attempt,      \* per request: the retry loop's counter (retry variant)
    fetchLog,     \* per request: the outcome of every fetch settled so far
    waits,        \* per request: the backoff delays (ms) slept so far
    timer,        \* per request: the 15 s timer of Promise.race (overpass)
    inflight,     \* per request: a fetch is issued and not settled yet
    data,         \* per request: the parsed upstream payload, once it is there
    augmented,    \* per request: the places array as the map built it
    results,      \* per request: the places array as sort left it (res.json)
    responses,    \* per request: every HTTP response sent, in order
    engineCalls,  \* per request: how many calculator functions were invoked
    engine        \* the last direct call of a calculator function (EngineSpec)

vars == <<variant, pc, body, attempt, fetchLog, waits, timer, inflight, data,
          augmented, results, responses, engineCalls, engine>>

handlerVars == <<variant, pc, body, attempt, fetchLog, waits, timer, inflight,
                 data, augmented, results, responses, engineCalls>>

-----------------------------------------------------------------------------
(* Number representation *)

Unit == 10^4
Fine == 10^8
Base == 10^4
NaN == 0 - 2^30

Abs(x) == IF x < 0 THEN 0 - x ELSE x
Sign(x) == IF x < 0 THEN 0 - 1 ELSE 1

\* a * b of two non-negative Fine-scaled numbers, rounded to nearest
MulAbs(a, b) ==
    LET a1 == a \div Base
        a0 == a % Base
        b1 == b \div Base
        b0 == b % Base
        mid == a1 * b0 + a0 * b1
        low == (a0 * b0) \div Base
    IN  a1 * b1 + (mid + low + (Base \div 2)) \div Base

\* the * of two Numbers (sign-symmetric rounding, as IEEE 754)
Mul(a, b) ==
    IF a = NaN \/ b = NaN THEN NaN
    ELSE Sign(a) * Sign(b) * MulAbs(Abs(a), Abs(b))

RECURSIVE DivDigits(_, _, _, _)
DivDigits(q, r, b, n) ==
    IF n = 0 THEN q
    ELSE DivDigits(q * 10 + ((r * 10) \div b), (r * 10) % b, b, n - 1)

\* a / b of two non-negative Fine-scaled numbers, b > 0
Div(a, b) == DivDigits(a \div b, a % b, b, 8)

\* x / 2 (exact in IEEE 754; here truncated towards zero, sign-symmetric)
Half(x) == IF x = NaN THEN NaN ELSE Sign(x) * (Abs(x) \div 2)

RECURSIVE ISqrtSearch(_, _, _)
ISqrtSearch(n, lo, hi) ==
    IF lo >= hi THEN lo
    ELSE LET mid == (lo + hi + 1) \div 2
         IN  IF mid * mid <= n THEN ISqrtSearch(n, mid, hi)
             ELSE ISqrtSearch(n, lo, mid - 1)

\* Math.sqrt: NaN for a negative argument
Sqrt(a) ==
    IF a = NaN \/ a < 0 THEN NaN
    ELSE IF a = 0 THEN 0
    ELSE LET x0 == ISqrtSearch(a, 0, 46340) * Base
             x1 == (x0 + Div(a, x0)) \div 2
         IN  (x1 + Div(a, x1)) \div 2

PI == 314159265
HalfPI == (PI + 1) \div 2
QuarterPI == (PI + 2) \div 4

RECURSIVE SinSeries(_, _, _, _)
SinSeries(term, x2, k, acc) ==
    IF term = 0 \/ k > 12 THEN acc
    ELSE SinSeries(0 - Sign(term) * (MulAbs(Abs(term), x2)
                                       \div ((2 * k + 2) * (2 * k + 3))),
                   x2, k + 1, acc + term)

RECURSIVE CosSeries(_, _, _, _)
CosSeries(term, x2, k, acc) ==
    IF term = 0 \/ k > 12 THEN acc
    ELSE CosSeries(0 - Sign(term) * (MulAbs(Abs(term), x2)
                                       \div ((2 * k + 1) * (2 * k + 2))),
                   x2, k + 1, acc + term)

\* Math.sin on [-PI, PI]: odd, as the IEEE 754 library function is
Sin(x) ==
    IF x = NaN THEN NaN
    ELSE LET ax == Abs(x)
             r == IF ax > HalfPI THEN PI - ax ELSE ax
         IN  Sign(x) * SinSeries(r, MulAbs(r, r), 0, 0)

\* Math.cos on [-PI, PI]: even
Cos(x) ==
    IF x = NaN THEN NaN
    ELSE LET ax == Abs(x)
         IN  IF ax > HalfPI
             THEN 0 - CosSeries(Fine, MulAbs(PI - ax, PI - ax), 0, 0)
             ELSE CosSeries(Fine, MulAbs(ax, ax), 0, 0)

RECURSIVE AtanSeries(_, _, _, _)
AtanSeries(pow, t2, k, acc) ==
    IF pow = 0 \/ k > 14 THEN acc
    ELSE AtanSeries(0 - Sign(pow) * MulAbs(Abs(pow), t2), t2, k + 1,
                    acc + Sign(pow) * (Abs(pow) \div (2 * k + 1)))

\* atan z for 0 <= z <= 1: atan z = PI/4 - atan((1 - z) / (1 + z))
Atan(z) ==
    LET t == Div(Fine - z, Fine + z)
    IN  IF 5 * z > 2 * Fine
        THEN QuarterPI - AtanSeries(t, MulAbs(t, t), 0, 0)
        ELSE AtanSeries(z, MulAbs(z, z), 0, 0)

\* Math.atan2(y, x) for the non-negative arguments the Haversine formula has
Atan2(y, x) ==
    IF y = NaN \/ x = NaN THEN NaN
    ELSE IF y = 0 THEN 0
    ELSE IF x = 0 THEN HalfPI
    ELSE IF y <= x THEN Atan(Div(y, x))
    ELSE HalfPI - Atan(Div(x, y))

\* Math.round of num / den (den > 0): floor(x + 0.5)
RoundDiv(num, den) == (2 * num + den) \div (2 * den)

-----------------------------------------------------------------------------
(* utils/distanceCalculator.js *)

R == 6371

\* Travel speed constants in km/h
TRAVEL_SPEEDS == [walking |-> 5, cycling |-> 15, driving |-> 40]

\* degrees * (Math.PI / 180), degrees a whole number
toRadians(degrees) ==
    IF degrees = NaN THEN NaN ELSE degrees * ((PI + 90) \div 180)

\* the - of two Numbers
Sub(a, b) == IF a = NaN \/ b = NaN THEN NaN ELSE a - b

\* the + of two Numbers
Add(a, b) == IF a = NaN \/ b = NaN THEN NaN ELSE a + b

\* R * c in kilometres (1/Unit), from c in radians (1/Fine)
TimesR(c) ==
    IF c = NaN THEN NaN
    ELSE R * (c \div Base) + (R * (c % Base) + (Base \div 2)) \div Base

\* calculateDistance with a fault: the second cosine taken of lat1 again
calculateDistanceSameLat(lat1, lon1, lat2, lon2) ==
    LET lat1Rad == toRadians(lat1)
        deltaLat == toRadians(Sub(lat2, lat1))
        deltaLon == toRadians(Sub(lon2, lon1))
        sLat == Sin(Half(deltaLat))
        sLon == Sin(Half(deltaLon))
        a == Add(Mul(sLat, sLat),
                 Mul(Mul(Mul(Cos(lat1Rad), Cos(lat1Rad)), sLon), sLon))
        c == Mul(2 * Fine, Atan2(Sqrt(a), Sqrt(Sub(Fine, a))))
    IN  TimesR(c)

\* Haversine distance in kilometres between two coordinate pairs
calculateDistance(lat1, lon1, lat2, lon2) ==
    LET lat1Rad == toRadians(lat1)
        lat2Rad == toRadians(lat2)
        deltaLat == toRadians(Sub(lat2, lat1))
        deltaLon == toRadians(Sub(lon2, lon1))
        sLat == Sin(Half(deltaLat))
        sLon == Sin(Half(deltaLon))
        a == Add(Mul(sLat, sLat),
                 Mul(Mul(Mul(Cos(lat1Rad), Cos(lat2Rad)), sLon), sLon))
        c == Mul(2 * Fine, Atan2(Sqrt(a), Sqrt(Sub(Fine, a))))
    IN  TimesR(c)

\* the text `${n}` of a Number
NumText(n) == IF n = NaN THEN "NaN" ELSE ToString(n)

\* km.toFixed(1): the nearest tenth, the larger one on a tie
toFixed1(km) ==
    IF km = NaN THEN "NaN"
    ELSE LET n == (km + (Unit \div 20)) \div (Unit \div 10)
         IN  ToString(n \div 10) \o "." \o ToString(n % 10)

\* formatDistance with a fault: exactly 1 km still rendered in meters
formatDistanceInclusive(distanceKm) ==
    IF distanceKm # NaN /\ distanceKm <= Unit
    THEN NumText(RoundDiv(distanceKm * 1000, Unit)) \o " m"
    ELSE toFixed1(distanceKm) \o " km"

\* Format distance for display
formatDistance(distanceKm) ==
    IF distanceKm # NaN /\ distanceKm < Unit
    THEN NumText(RoundDiv(distanceKm * 1000, Unit)) \o " m"
    ELSE toFixed1(distanceKm) \o " km"

\* the / of a Number by a whole number or NaN (undefined), to nearest
DivBy(x, n) ==
    IF x = NaN \/ n = NaN THEN NaN
    ELSE Sign(x) * ((2 * Abs(x) + n) \div (2 * n))

\* TRAVEL_SPEEDS[mode]: undefined (NaN as a Number) for an unknown key
SpeedOf(mode) ==
    IF mode \in DOMAIN TRAVEL_SPEEDS THEN TRAVEL_SPEEDS[mode] ELSE NaN

\* calculateTravelTime with a fault: no fallback to the walking speed
calculateTravelTimeNoDefault(distanceKm, mode) ==
    LET speed == SpeedOf(mode)
        timeInHours == DivBy(distanceKm, speed)
    IN  IF timeInHours = NaN THEN NaN ELSE timeInHours * 60

\* Travel time in minutes from distance and mode
calculateTravelTime(distanceKm, mode) ==
    LET speed == IF SpeedOf(mode) # NaN /\ SpeedOf(mode) # 0
                 THEN SpeedOf(mode) ELSE TRAVEL_SPEEDS.walking
        timeInHours == DivBy(distanceKm, speed)
    IN  IF timeInHours = NaN THEN NaN ELSE timeInHours * 60

\* formatTravelTime with a fault: 60 remaining minutes carried into the hours
formatTravelTimeCarry(minutes) ==
    IF minutes # NaN /\ minutes < Unit THEN "Less than 1 min"
    ELSE IF minutes # NaN /\ minutes < 60 * Unit
    THEN NumText(RoundDiv(minutes, Unit)) \o " mins"
    ELSE LET total == IF minutes = NaN THEN NaN ELSE RoundDiv(minutes, Unit)
             hours == IF minutes = NaN THEN NaN ELSE total \div 60
             remainingMinutes == IF minutes = NaN THEN NaN ELSE total % 60
         IN  IF remainingMinutes = 0
             THEN (IF hours = 1 THEN "1 hour" ELSE NumText(hours) \o " hours")
             ELSE NumText(hours) \o " hour"
                  \o (IF hours # NaN /\ hours > 1 THEN "s" ELSE "")
                  \o " " \o NumText(remainingMinutes) \o " mins"

\* Format travel time for display
formatTravelTime(minutes) ==
    IF minutes # NaN /\ minutes < Unit THEN "Less than 1 min"
    ELSE IF minutes # NaN /\ minutes < 60 * Unit
    THEN NumText(RoundDiv(minutes, Unit)) \o " mins"
    ELSE LET hours == IF minutes = NaN THEN NaN ELSE minutes \div (60 * Unit)
             remainingMinutes ==
                 IF minutes = NaN THEN NaN
                 ELSE RoundDiv(minutes % (60 * Unit), Unit)
         IN  IF remainingMinutes = 0
             THEN (IF hours = 1 THEN "1 hour" ELSE NumText(hours) \o " hours")
             ELSE NumText(hours) \o " hour"
                  \o (IF hours # NaN /\ hours > 1 THEN "s" ELSE "")
                  \o " " \o NumText(remainingMinutes) \o " mins"

-----------------------------------------------------------------------------
(* JavaScript values of the request body and of the upstream JSON.  A value *)
(* is [t, v]: its type and the Number it converts to (NaN when it has none).*)

Undefined == [t |-> "undefined", v |-> NaN]
JsNull == [t |-> "null", v |-> 0]
Num(n) == [t |-> "number", v |-> n]
\* a non-empty string: the decimal text of n, or text that is no number (NaN)
Str(n) == [t |-> "string", v |-> n]

\* ToBoolean, as ! and && and || apply it
Truthy(x) ==
    CASE x.t = "undefined" -> FALSE
      [] x.t = "null" -> FALSE
      [] x.t = "number" -> x.v # 0 /\ x.v # NaN
      [] x.t = "string" -> TRUE

\* ToNumber, as the arithmetic operators and isNaN apply it
ToNumber(x) ==
    CASE x.t = "undefined" -> NaN
      [] x.t = "null" -> 0
      [] x.t = "number" -> x.v
      [] x.t = "string" -> x.v

isNaN(x) == ToNumber(x) = NaN

\* parseFloat reads the text of its argument: null and undefined have none
parseFloat(x) ==
    CASE x.t = "undefined" -> NaN
      [] x.t = "null" -> NaN
      [] x.t = "number" -> x.v
      [] x.t = "string" -> x.v

\* null in a Number field and in a string field of a place
Null == NaN - 1
NullText == "null"

-----------------------------------------------------------------------------
(* Sorting: Array.prototype.sort with the handlers' comparator.  Node runs  *)
(* ES modules on V8's TimSort, which for fewer than 64 elements is one run  *)
(* detection followed by a binary insertion sort.                           *)

\* the comparator with a fault: the b.distanceKm === null test left out
\* (the subtraction then reads null as 0)
compareNoNullB(a, b) ==
    IF a.distanceKm = Null THEN 1
    ELSE Sub(a.distanceKm, IF b.distanceKm = Null THEN 0 ELSE b.distanceKm)

\* (a, b) => ... of places.sort
compareByDistance(a, b) ==
    IF a.distanceKm = Null THEN 1
    ELSE IF b.distanceKm = Null THEN 0 - 1
    ELSE Sub(a.distanceKm, b.distanceKm)

\* order < 0, false for NaN
Negative(order) == order # NaN /\ order < 0

RECURSIVE RunEnd(_, _, _)
\* the last index of the run that starts at 1 and already covers 1..idx-1
RunEnd(arr, idx, descending) ==
    IF idx > Len(arr) THEN idx - 1
    ELSE IF Negative(compareByDistance(arr[idx], arr[idx - 1])) = descending
    THEN RunEnd(arr, idx + 1, descending)
    ELSE idx - 1

RECURSIVE InsertionPoint(_, _, _, _)
InsertionPoint(arr, pivot, left, right) ==
    IF left >= right THEN left
    ELSE LET mid == left + ((right - left) \div 2)
         IN  IF Negative(compareByDistance(pivot, arr[mid]))
             THEN InsertionPoint(arr, pivot, left, mid)
             ELSE InsertionPoint(arr, pivot, mid + 1, right)

RECURSIVE BinaryInsertionSort(_, _)
\* arr[1..start-1] is sorted; insert arr[start], arr[start+1], ...
BinaryInsertionSort(arr, start) ==
    IF start > Len(arr) THEN arr
    ELSE LET pivot == arr[start]
             pos == InsertionPoint(arr, pivot, 1, start)
         IN  BinaryInsertionSort(
                 [i \in 1..Len(arr) |->
                     IF i < pos \/ i > start THEN arr[i]
                     ELSE IF i = pos THEN pivot
                     ELSE arr[i - 1]],
                 start + 1)

\* places.sort(compareByDistance)
sort(arr) ==
    IF Len(arr) < 2 THEN arr
    ELSE LET descending == Negative(compareByDistance(arr[2], arr[1]))
             n == RunEnd(arr, 3, descending)
             run == [i \in 1..Len(arr) |->
                        IF descending /\ i <= n THEN arr[n + 1 - i] ELSE arr[i]]
         IN  BinaryInsertionSort(run, n + 1)

-----------------------------------------------------------------------------
(* The inputs: request bodies and what the external data source answers *)

NumReqs == 2
MaxPlaces == 3

Reqs == 1..NumReqs
Variants == {"retry", "nominatim", "overpass"}

LatValues == {Undefined, JsNull, Num(0), Num(6), Str(6), Str(NaN)}
LngValues == {Undefined, Num(0), Num(3), Str(NaN)}
TypeValues == {Undefined, Str(NaN)}
Bodies == [lat : LatValues, lng : LngValues, type : TypeValues]

NoBody == [lat |-> Undefined, lng |-> Undefined, type |-> Undefined]

\* coordinates of a candidate place in whole degrees; NaN: none usable
PlaceCoords == {<<6, 3>>, <<6, 4>>, <<0, 3>>, <<NaN, 3>>}

\* (every place carries the display_name Nominatim sends with it)
\* Nominatim sends coordinates as strings (here also text that is no
\* number), Overpass as JSON numbers, absent on an element without position
OnWire(v, c) ==
    IF v = "overpass" THEN (IF c = NaN THEN Undefined ELSE Num(c)) ELSE Str(c)

PlaceLists(n) == UNION {[1..k -> PlaceCoords] : k \in 0..n}

PlacesPayload(v, coords) ==
    [kind |-> "places",
     places |-> [i \in 1..Len(coords) |->
                    [place_id |-> i,
                     lat |-> OnWire(v, coords[i][1]),
                     lon |-> OnWire(v, coords[i][2])]]]

\* a JSON document that is no array and has no elements; the JSON null
ObjectPayload == [kind |-> "object", places |-> <<>>]
NullPayload == [kind |-> "null", places |-> <<>>]
NoPayload == [kind |-> "none", places |-> <<>>]

OkReply(payload) == [kind |-> "ok", status |-> 200, payload |-> payload]
StatusReply(s) == [kind |-> "status", status |-> s, payload |-> NoPayload]
\* fetch rejects (network error); response.json() rejects (malformed body)
ErrorReply == [kind |-> "error", status |-> 0, payload |-> NoPayload]
BadJsonReply == [kind |-> "badjson", status |-> 200, payload |-> NoPayload]

FailureReplies == {StatusReply(404), StatusReply(503), ErrorReply, BadJsonReply}

RepliesOf(v) ==
    FailureReplies
    \cup {OkReply(ObjectPayload), OkReply(NullPayload)}
    \cup {OkReply(PlacesPayload(v, coords)) : coords \in PlaceLists(MaxPlaces)}

NominatimReplies == RepliesOf("nominatim")
OverpassReplies == RepliesOf("overpass")

\* what the data source of variant v may answer to one fetch
Replies(v) == IF v = "overpass" THEN OverpassReplies ELSE NominatimReplies

-----------------------------------------------------------------------------
(* The handlers' synchronous code *)

maxRetries == 3

\* if (!lat || !lng || !type)
MissingField(b) == ~Truthy(b.lat) \/ ~Truthy(b.lng) \/ ~Truthy(b.type)

\* if (isNaN(lat) || isNaN(lng) || lat === null || lng === null)
InvalidCoordinates(b) ==
    isNaN(b.lat) \/ isNaN(b.lng) \/ b.lat.t = "null" \/ b.lng.t = "null"

\* the place returned with its four derived fields null
nulled(id) ==
    [id |-> id, distance |-> NullText, distanceKm |-> Null,
     travelTime |-> NullText, travelTimeMinutes |-> Null]

\* the place returned from the try block: four calls of the calculator
computed(id, lat, lng, placeLat, placeLng, mode) ==
    LET distanceKm ==
            calculateDistance(lat, lng, placeLat, placeLng)
        travelTimeMinutes == calculateTravelTime(distanceKm, mode)
    IN  [id |-> id, distance |-> formatDistance(distanceKm),
         distanceKm |-> distanceKm,
         travelTime |-> formatTravelTime(travelTimeMinutes),
         travelTimeMinutes |-> travelTimeMinutes]

\* how many calculator functions building these places invoked
CallsFor(places) ==
    4 * Cardinality({i \in 1..Len(places) : places[i].distanceKm # Null})

\* retry variant: data.map((place) => ...), travelMode "walking"
retryMap(b, places) ==
    [i \in 1..Len(places) |->
        LET placeLat == parseFloat(places[i].lat)
            placeLon == parseFloat(places[i].lon)
        IN  IF placeLat = NaN \/ placeLon = NaN
            THEN nulled(places[i].place_id)
            ELSE computed(places[i].place_id, ToNumber(b.lat), ToNumber(b.lng),
                          placeLat, placeLon, "walking")]

\* nominatim variant: fetchRealPlaces' data.map(...).filter(...)
nominatimFetched(places) ==
    SelectSeq([i \in 1..Len(places) |->
                  [id |-> places[i].place_id,
                   lat |-> Num(parseFloat(places[i].lat)),
                   lng |-> Num(parseFloat(places[i].lon))]],
              LAMBDA place : /\ Truthy(place.lat) /\ Truthy(place.lng)
                             /\ ~isNaN(place.lat) /\ ~isNaN(place.lng))

\* overpass variant: fetchRealPlaces' data.elements.map(...).filter(...)
\* (the elements carry no center, so lat || center?.lat is lat or undefined)
overpassFetched(places) ==
    SelectSeq([i \in 1..Len(places) |->
                  [id |-> places[i].place_id,
                   lat |-> IF Truthy(places[i].lat)
                           THEN places[i].lat ELSE Undefined,
                   lng |-> IF Truthy(places[i].lon)
                           THEN places[i].lon ELSE Undefined]],
              LAMBDA place : Truthy(place.lat) /\ Truthy(place.lng))

\* nominatim and overpass variants: realPlaces.map((place) => ...)
handlerMap(b, realPlaces) ==
    [i \in 1..Len(realPlaces) |->
        computed(realPlaces[i].id, ToNumber(b.lat), ToNumber(b.lng),
                 ToNumber(realPlaces[i].lat), ToNumber(realPlaces[i].lng),
                 "walking")]

(* What a stretch of handler code between two awaits does: the responses   *)
(* it sends, where the handler stands afterwards, the places it built, the *)
(* calculator calls it made and the delay it starts to sleep.              *)
Ended(status) ==
    [send |-> <<status>>, pc |-> "done", places |-> <<>>, results |-> <<>>,
     calls |-> 0, waits |-> <<>>]

Answered(places) ==
    [send |-> <<200>>, pc |-> "done", places |-> places,
     results |-> sort(places), calls |-> CallsFor(places), waits |-> <<>>]

Fetching ==
    [send |-> <<>>, pc |-> "fetching", places |-> <<>>, results |-> <<>>,
     calls |-> 0, waits |-> <<>>]

\* the backoff with a fault: every retry sleeps 1000 ms
BackoffFlat(att) == 1000

\* setTimeout(resolve, 1000 * attempt)
Backoff(att) == 1000 * att

Sleeping(att) ==
    [send |-> <<>>, pc |-> "backoff", places |-> <<>>, results |-> <<>>,
     calls |-> 0, waits |-> <<Backoff(att)>>]

\* from the request's arrival to the first await
onRequest(v, b) ==
    IF MissingField(b) THEN Ended(400)
    ELSE IF v # "retry" /\ InvalidCoordinates(b) THEN Ended(400)
    ELSE Fetching

\* retryNotOk with a fault: the return in front of
\* res.status(response.status) left out,
\* so the loop runs out and the outer catch answers once more
retryNotOkNoReturn(att, reply) ==
    IF att = maxRetries
    THEN [send |-> <<reply.status, 500>>, pc |-> "done", places |-> <<>>,
          results |-> <<>>, calls |-> 0, waits |-> <<Backoff(att)>>]
    ELSE Sleeping(att)

\* retry variant: if (!response.ok) { ... }
retryNotOk(att, reply) ==
    IF att = maxRetries THEN Ended(reply.status) ELSE Sleeping(att)

\* retry variant: catch (fetchError) { ... }; the throw reaches the outer catch
retryThrown(att) ==
    IF att = maxRetries THEN Ended(500) ELSE Sleeping(att)

\* retry variant: from data = await response.json() to res.json
retrySuccess(b, payload) ==
    IF payload.kind = "null" THEN Ended(500)
    ELSE IF InvalidCoordinates(b) THEN Ended(400)
    ELSE IF payload.kind # "places" THEN Ended(500)
    ELSE Answered(retryMap(b, payload.places))

retrySettled(b, att, reply) ==
    CASE reply.kind = "status" -> retryNotOk(att, reply)
      [] reply.kind \in {"error", "badjson"} -> retryThrown(att)
      [] reply.kind = "ok" -> retrySuccess(b, reply.payload)

\* nominatim variant: every failure inside the try ends in its catch
nominatimSettled(b, reply) ==
    IF reply.kind # "ok" \/ reply.payload.kind # "places" THEN Ended(500)
    ELSE Answered(handlerMap(b, nominatimFetched(reply.payload.places)))

\* overpass variant: a rejected race ends in the inner catch
overpassSettled(b, reply) ==
    IF reply.kind # "ok" \/ reply.payload.kind # "places" THEN Ended(503)
    ELSE Answered(handlerMap(b, overpassFetched(reply.payload.places)))

settled(v, b, att, reply) ==
    CASE v = "retry" -> retrySettled(b, att, reply)
      [] v = "nominatim" -> nominatimSettled(b, reply)
      [] v = "overpass" -> overpassSettled(b, reply)

-----------------------------------------------------------------------------
(* The state machine *)

NoCall == [fn |-> "none", in |-> <<>>, done |-> FALSE, out |-> 0]

\* no request has arrived yet
Idle ==
    /\ pc = [r \in Reqs |-> "idle"]
    /\ body = [r \in Reqs |-> NoBody]
    /\ attempt = [r \in Reqs |-> 0]
    /\ fetchLog = [r \in Reqs |-> <<>>]
    /\ waits = [r \in Reqs |-> <<>>]
    /\ timer = [r \in Reqs |-> "off"]
    /\ inflight = [r \in Reqs |-> FALSE]
    /\ data = [r \in Reqs |-> NoPayload]
    /\ augmented = [r \in Reqs |-> <<>>]
    /\ results = [r \in Reqs |-> <<>>]
    /\ responses = [r \in Reqs |-> <<>>]
    /\ engineCalls = [r \in Reqs |-> 0]

Init ==
    /\ variant \in Variants
    /\ Idle
    /\ engine = NoCall

\* a request arrives and its handler runs to its first await (or to its end)
Receive(r, b) ==
    /\ pc[r] = "idle"
    /\ LET o == onRequest(variant, b)
       IN  /\ body' = [body EXCEPT ![r] = b]
           /\ pc' = [pc EXCEPT ![r] = o.pc]
           /\ responses' = [responses EXCEPT ![r] = @ \o o.send]
           /\ inflight' = [inflight EXCEPT ![r] = (o.pc = "fetching")]
           /\ attempt' = [attempt EXCEPT ![r] =
                             IF o.pc = "fetching" /\ variant = "retry"
                             THEN 1 ELSE @]
           /\ timer' = [timer EXCEPT ![r] =
                           IF o.pc = "fetching" /\ variant = "overpass"
                           THEN "armed" ELSE @]
    /\ UNCHANGED <<variant, fetchLog, waits, data, augmented, results,
                   engineCalls, engine>>

\* the awaited fetch settles and the handler runs on to its next await or end
Settle(r, reply) ==
    /\ pc[r] = "fetching"
    /\ inflight[r]
    /\ LET o == settled(variant, body[r], attempt[r], reply)
       IN  /\ pc' = [pc EXCEPT ![r] = o.pc]
           /\ responses' = [responses EXCEPT ![r] = @ \o o.send]
           /\ augmented' = [augmented EXCEPT ![r] = o.places]
           /\ results' = [results EXCEPT ![r] = o.results]
           /\ engineCalls' = [engineCalls EXCEPT ![r] = @ + o.calls]
           /\ waits' = [waits EXCEPT ![r] = @ \o o.waits]
    /\ fetchLog' = [fetchLog EXCEPT ![r] =
                       Append(@, [kind |-> reply.kind, status |-> reply.status])]
    /\ data' = [data EXCEPT ![r] = IF reply.kind = "ok" THEN reply.payload ELSE @]
    /\ inflight' = [inflight EXCEPT ![r] = FALSE]
    /\ UNCHANGED <<variant, body, attempt, timer, engine>>

\* retry variant: the backoff timer resolves, the loop's next fetch is issued
BackoffElapsed(r) ==
    /\ pc[r] = "backoff"
    /\ attempt' = [attempt EXCEPT ![r] = @ + 1]
    /\ pc' = [pc EXCEPT ![r] = "fetching"]
    /\ inflight' = [inflight EXCEPT ![r] = TRUE]
    /\ UNCHANGED <<variant, body, fetchLog, waits, timer, data, augmented,
                   results, responses, engineCalls, engine>>

\* overpass variant: the 15 s timer rejects its promise; the race, if still
\* pending, rejects and the inner catch answers 503
TimerFire(r) ==
    /\ timer[r] = "armed"
    /\ timer' = [timer EXCEPT ![r] = "fired"]
    /\ IF pc[r] = "fetching"
       THEN /\ pc' = [pc EXCEPT ![r] = "done"]
            /\ responses' = [responses EXCEPT ![r] = Append(@, 503)]
       ELSE UNCHANGED <<pc, responses>>
    /\ UNCHANGED <<variant, body, attempt, fetchLog, waits, inflight, data,
                   augmented, results, engineCalls, engine>>

\* overpass variant: the fetch settles after the race was lost to the timer;
\* fetchRealPlaces' promise has no one left awaiting it
LateSettle(r, reply) ==
    /\ pc[r] = "done"
    /\ inflight[r]
    /\ inflight' = [inflight EXCEPT ![r] = FALSE]
    /\ fetchLog' = [fetchLog EXCEPT ![r] =
                       Append(@, [kind |-> reply.kind, status |-> reply.status])]
    /\ UNCHANGED <<variant, pc, body, attempt, waits, timer, data, augmented,
                   results, responses, engineCalls, engine>>

\* one request, every body and every answer of the data source
Next ==
    \/ \E b \in Bodies : Receive(1, b)
    \/ \E reply \in Replies(variant) : Settle(1, reply)
    \/ BackoffElapsed(1)
    \/ TimerFire(1)
    \/ \E reply \in Replies(variant) : LateSettle(1, reply)

Spec == Init /\ [][Next]_vars

-----------------------------------------------------------------------------
(* Concurrent requests: NumReqs handlers interleaved at their awaits *)

ConcBodies ==
    {[lat |-> Num(6), lng |-> Num(3), type |-> Str(NaN)],
     [lat |-> Str(NaN), lng |-> Num(3), type |-> Str(NaN)]}

ConcReplies(v) ==
    {StatusReply(503), OkReply(PlacesPayload(v, <<<<6, 4>>>>))}

ConcNext ==
    \E r \in Reqs :
        \/ \E b \in ConcBodies : Receive(r, b)
        \/ \E reply \in ConcReplies(variant) : Settle(r, reply)
        \/ BackoffElapsed(r)
        \/ TimerFire(r)
        \/ \E reply \in ConcReplies(variant) : LateSettle(r, reply)

\* what the event loop and the awaited promises owe request r: a due timer
\* fires, and the claim is about fetches that do settle
Progress(r) ==
    \/ \E reply \in ConcReplies(variant) : Settle(r, reply)
    \/ BackoffElapsed(r)
    \/ TimerFire(r)

ConcSpec ==
    Init /\ [][ConcNext]_vars /\ \A r \in Reqs : WF_vars(Progress(r))

-----------------------------------------------------------------------------
(* The calculator's functions called directly, on inputs drawn at the start *)

LatStep == 30
LonStep == 45
MaxDistanceSteps == 6000
MaxTravelSteps == 400
MaxMinuteSteps == 1300

Latitudes == {x \in (0 - 90)..90 : x % LatStep = 0}
Longitudes == {x \in (0 - 180)..180 : x % LonStep = 0}
\* kilometres in steps of half a metre
DistanceInputs == {5 * k : k \in 0..MaxDistanceSteps}
\* kilometres in steps of 25 m
TravelInputs == {250 * k : k \in 0..MaxTravelSteps}
\* TRAVEL_SPEEDS[undefined] reads the key "undefined"
Modes == {"walking", "cycling", "driving", "unknown-mode", "undefined"}
\* minutes in steps of a tenth
MinuteInputs == {1000 * k : k \in 0..MaxMinuteSteps}

Calls ==
    {[fn |-> "calculateDistance", in |-> q, done |-> FALSE, out |-> 0] :
        q \in Latitudes \X Longitudes \X Latitudes \X Longitudes}
    \cup {[fn |-> "formatDistance", in |-> <<km>>, done |-> FALSE, out |-> 0] :
            km \in DistanceInputs}
    \cup {[fn |-> "calculateTravelTime", in |-> q, done |-> FALSE, out |-> 0] :
            q \in TravelInputs \X Modes}
    \cup {[fn |-> "formatTravelTime", in |-> <<m>>, done |-> FALSE, out |-> 0] :
            m \in MinuteInputs}

EngineInit ==
    /\ variant = "retry"
    /\ Idle
    /\ engine \in Calls

Return(out) ==
    /\ ~engine.done
    /\ engine' = [engine EXCEPT !.done = TRUE, !.out = out]
    /\ UNCHANGED handlerVars

CallCalculateDistance ==
    /\ engine.fn = "calculateDistance"
    /\ Return(calculateDistance(engine.in[1], engine.in[2],
                                engine.in[3], engine.in[4]))

CallFormatDistance ==
    /\ engine.fn = "formatDistance"
    /\ Return(formatDistance(engine.in[1]))

CallCalculateTravelTime ==
    /\ engine.fn = "calculateTravelTime"
    /\ Return(calculateTravelTime(engine.in[1], engine.in[2]))

CallFormatTravelTime ==
    /\ engine.fn = "formatTravelTime"
    /\ Return(formatTravelTime(engine.in[1]))

EngineNext ==
    \/ CallCalculateDistance
    \/ CallFormatDistance
    \/ CallCalculateTravelTime
    \/ CallFormatTravelTime

EngineSpec == EngineInit /\ [][EngineNext]_vars

-----------------------------------------------------------------------------
(* Claims *)

Last(seq) == seq[Len(seq)]
Distances(seq) == [i \in 1..Len(seq) |-> seq[i].distanceKm]
Occurrences(seq, x) == Cardinality({i \in 1..Len(seq) : seq[i] = x})
Elements(seq) == {seq[i] : i \in 1..Len(seq)}

IsPermutation(a, b) ==
    /\ Len(a) = Len(b)
    /\ \A x \in Elements(a) \cup Elements(b) :
           Occurrences(a, x) = Occurrences(b, x)

NullsLastAscending(d) ==
    \A i, j \in 1..Len(d) :
        i < j =>
            /\ d[i] = Null => d[j] = Null
            /\ (d[i] # Null /\ d[j] # Null) => d[i] <= d[j]

SortExample ==
    [i \in 1..5 |-> [id |-> i, distanceKm |-> <<5, Null, 1, Null, 3>>[i]]]

WellFormed(b) ==
    /\ b.type.t = "string"
    /\ b.lat.t \in {"number", "string"} /\ b.lat.v \notin {0, NaN}
    /\ b.lng.t \in {"number", "string"} /\ b.lng.v \notin {0, NaN}

\* no distance can be computed for this candidate of the data source
Uncomputable(place) ==
    \/ place.lat.t \notin {"number", "string"} \/ place.lat.v = NaN
    \/ place.lon.t \notin {"number", "string"} \/ place.lon.v = NaN

\* C2: a candidate whose distance cannot be computed (unparseable place
\* coordinates included) is not discarded and does not abort the batch: it
\* is in the results of a 200 response with distance, distanceKm, travelTime
\* and travelTimeMinutes all null.
C2_FailedCandidateKept ==
    \A r \in Reqs :
        (pc[r] = "done" /\ WellFormed(body[r]) /\ data[r].kind = "places") =>
            /\ responses[r] = <<200>>
            /\ \A i \in 1..Len(data[r].places) :
                   Uncomputable(data[r].places[i]) =>
                       \E j \in 1..Len(results[r]) :
                           /\ results[r][j].id = data[r].places[i].place_id
                           /\ results[r][j].distance = NullText
                           /\ results[r][j].distanceKm = Null
                           /\ results[r][j].travelTime = NullText
                           /\ results[r][j].travelTimeMinutes = Null

\* lat, lng or type missing, or lat or lng not numeric
Malformed(b) ==
    \/ b.lat.t \in {"undefined", "null"}
    \/ b.lng.t \in {"undefined", "null"}
    \/ b.type.t \in {"undefined", "null"}
    \/ (b.lat.t = "string" /\ b.lat.v = NaN)
    \/ (b.lng.t = "string" /\ b.lng.v = NaN)

\* C3: a request whose lat, lng or type is missing or whose lat or lng is
\* not numeric is answered with a 4xx status and no calculator function is
\* invoked for it, in every variant and whatever the data source answers.
C3_MalformedRejected ==
    \A r \in Reqs :
        (pc[r] = "done" /\ Malformed(body[r])) =>
            /\ Len(responses[r]) = 1
            /\ responses[r][1] \in 400..499
            /\ engineCalls[r] = 0

\* the data source failed for the request: its last fetch ended in a non-OK
\* status or a network error, or the 15 s timer beat it
UpstreamFailed(r) ==
    \/ Len(fetchLog[r]) > 0 /\ Last(fetchLog[r]).kind \in {"status", "error"}
    \/ timer[r] = "fired" /\ inflight[r]

\* C4: when the data source fails for a request, the response to it has a
\* 5xx status.
C4_UpstreamFailureIs5xx ==
    \A r \in Reqs :
        (pc[r] = "done" /\ UpstreamFailed(r)) =>
            /\ Len(responses[r]) = 1
            /\ responses[r][1] \in 500..599

\* x / Unit rounded to the nearest whole number, halves upwards
Nearest(x) == IF 2 * (x % Unit) >= Unit THEN (x \div Unit) + 1 ELSE x \div Unit

\* C5: formatTravelTime follows the piecewise rule: below 1 minute "Less
\* than 1 min"; below 60 the rounded minutes and " mins"; from 60 on the
\* whole hours and the rounded remaining minutes, "1 hour" / "<h> hours"
\* when none remain, the plural s only for more than one hour, and 60
\* remaining minutes printed as 60 (119.6 gives "1 hour 60 mins").
C5_FormatTravelTimePiecewise ==
    (engine.fn = "formatTravelTime" /\ engine.done) =>
        LET m == engine.in[1]
            hours == (m \div Unit) \div 60
            remaining == Nearest(m - hours * 60 * Unit)
            hourText == ToString(hours) \o (IF hours > 1 THEN " hours" ELSE " hour")
        IN  /\ m < Unit => engine.out = "Less than 1 min"
            /\ (Unit <= m /\ m < 60 * Unit) =>
                   engine.out = ToString(Nearest(m)) \o " mins"
            /\ (m >= 60 * Unit /\ remaining = 0) => engine.out = hourText
            /\ (m >= 60 * Unit /\ remaining # 0) =>
                   engine.out = ToString(hours) \o " hour"
                                \o (IF hours > 1 THEN "s" ELSE "")
                                \o " " \o ToString(remaining) \o " mins"
            /\ m = 5000 => engine.out = "Less than 1 min"
            /\ m = 450000 => engine.out = "45 mins"
            /\ m = 900000 => engine.out = "1 hour 30 mins"
            /\ m = 1200000 => engine.out = "2 hours"
            /\ m = 1196000 => engine.out = "1 hour 60 mins"

\* formatTravelTime(119.6) has returned
C5_Witness ==
    /\ engine.fn = "formatTravelTime"
    /\ engine.done
    /\ engine.in = <<1196000>>
    /\ engine.out = "1 hour 60 mins"

\* C6: formatDistance renders km < 1 as the rounded metres and " m", and
\* km >= 1 with exactly one decimal digit and " km"; exactly 1.0 gives
\* "1.0 km" (0.5 gives "500 m", 2.567 gives "2.6 km").
C6_FormatDistanceThreshold ==
    (engine.fn = "formatDistance" /\ engine.done) =>
        LET km == engine.in[1]
            metres == IF km % 10 >= 5 THEN (km \div 10) + 1 ELSE km \div 10
        IN  /\ km < Unit => engine.out = ToString(metres) \o " m"
            /\ km >= Unit =>
                   \E tenths \in {km \div 1000, (km \div 1000) + 1} :
                       /\ 2 * Abs(tenths * 1000 - km) <= 1000
                       /\ engine.out = ToString(tenths \div 10) \o "."
                                       \o ToString(tenths % 10) \o " km"
            /\ km = 5000 => engine.out = "500 m"
            /\ km = 10000 => engine.out = "1.0 km"
            /\ km = 25670 => engine.out = "2.6 km"

\* formatDistance(1.0) has returned
C6_Witness ==
    /\ engine.fn = "formatDistance"
    /\ engine.done
    /\ engine.in = <<10000>>
    /\ engine.out = "1.0 km"

Issued(r) == Len(fetchLog[r]) + (IF inflight[r] THEN 1 ELSE 0)

\* C9: the retrying handler fetches at most 3 times per request, attempt
\* k+1 only after attempt k failed and after a wait of 1000*k ms; after a
\* success it fetches no more; after the third failure it answers with an
\* error.
C9_RetryDiscipline ==
    variant = "retry" =>
        \A r \in Reqs :
            /\ Issued(r) <= 3
            /\ \A k \in 1..(Issued(r) - 1) :
                   /\ fetchLog[r][k].kind # "ok"
                   /\ k <= Len(waits[r])
            /\ \A k \in 1..Len(waits[r]) : waits[r][k] = 1000 * k
            /\ Len(waits[r]) <= Issued(r)
            /\ (Len(fetchLog[r]) > 0 /\ Last(fetchLog[r]).kind = "ok") =>
                   pc[r] = "done" /\ ~inflight[r]
            /\ (Len(fetchLog[r]) = 3 /\ Last(fetchLog[r]).kind # "ok") =>
                   /\ pc[r] = "done"
                   /\ Len(responses[r]) = 1
                   /\ responses[r][1] >= 400

\* a third attempt that succeeded after waits of 1000 and 2000 ms
C9_Witness ==
    /\ variant = "retry"
    /\ \E r \in Reqs :
           /\ Len(fetchLog[r]) = 3
           /\ fetchLog[r][1].kind = "status"
           /\ fetchLog[r][2].kind = "error"
           /\ fetchLog[r][3].kind = "ok"
           /\ waits[r] = <<1000, 2000>>
           /\ responses[r] = <<200>>

\* C10: with any number of requests in flight and any interleaving of
\* upstream replies, retry waits and the timeout timer, each request gets
\* exactly one response: never a second one, and one at last once its
\* fetches have settled or timed out.
C10_ExactlyOneResponse ==
    /\ [](\A r \in Reqs :
              /\ Len(responses[r]) <= 1
              /\ pc[r] = "done" <=> Len(responses[r]) = 1)
    /\ \A r \in Reqs : (pc[r] # "idle") ~> (Len(responses[r]) = 1)

\* a late upstream reply after the timeout's 503, another request in flight
C10_Witness ==
    /\ variant = "overpass"
    /\ \E r1, r2 \in Reqs :
           /\ r1 # r2
           /\ responses[r1] = <<503>>
           /\ timer[r1] = "fired"
           /\ Len(fetchLog[r1]) = 1
           /\ ~inflight[r1]
           /\ pc[r2] = "fetching"

\* lat a number in [-90, 90], lng a number in [-180, 180], type a non-empty
\* string
ValidRequest(b) ==
    /\ b.lat.t = "number" /\ b.lat.v # NaN
    /\ b.lat.v >= 0 - 90 /\ b.lat.v <= 90
    /\ b.lng.t = "number" /\ b.lng.v # NaN
    /\ b.lng.v >= 0 - 180 /\ b.lng.v <= 180
    /\ b.type.t = "string"

\* C11: a request whose lat is a number in [-90, 90] and whose lng is a
\* number in [-180, 180], 0 included for either, and whose type is a
\* non-empty string is never answered with the 400 of the validation.
C11_ValidNeverRejected ==
    \A r \in Reqs :
        (pc[r] # "idle" /\ ValidRequest(body[r])) =>
            \A i \in 1..Len(responses[r]) : responses[r][i] # 400

====
